---- MODULE Spec2Model ----
(***************************************************************************)
(* Board and computer-player move search of the tic-tac-toe engine.        *)
(*                                                                         *)
(* A board value is a record [width, height, grid, empty_positions, err].  *)
(* grid[i][j] is the cell of row i, column j (rows and columns counted     *)
(* from 0, as in the source); empty_positions is the Python list of        *)
(* (row, col) tuples, a sequence of <<row, col>>.  err is "none" unless    *)
(* the operation that produced the value raised; it then names the         *)
(* exception and the other fields hold the state the object was left in.   *)
(***************************************************************************)
EXTENDS Integers, Sequences, FiniteSets, TLC

None == "None"
Symbols == {"X", "O"}

\* float("inf") of the search; every score is far inside (-Inf, Inf).
Inf == 1000000
NegInf == -Inf

\* Score of a win found at depth 0.
WinScore == 1000

Max(a, b) == IF a >= b THEN a ELSE b
Min(a, b) == IF a <= b THEN a ELSE b

-----------------------------------------------------------------------------
(* Board *)

\* Board.__init__: every cell None, empty_positions in row-major order.
Board(w, h) ==
    [width |-> w,
     height |-> h,
     grid |-> [i \in 0 .. h - 1 |-> [j \in 0 .. w - 1 |-> None]],
     empty_positions |-> [k \in 1 .. w * h |-> <<(k - 1) \div w, (k - 1) % w>>],
     err |-> "none"]

\* The coordinates of a board, and whether a pair of integers is one.
Cells(b) == (0 .. b.height - 1) \X (0 .. b.width - 1)
InBounds(b, position) ==
    /\ 0 <= position[1] /\ position[1] < b.height
    /\ 0 <= position[2] /\ position[2] < b.width

\* Board.is_full
is_full(board) == Len(board.empty_positions) = 0

\* check_equal, the helper nested in check_winner, on a non-empty sequence.
check_equal(values) ==
    IF values[1] # None /\ \A k \in 1 .. Len(values) : values[k] = values[1]
    THEN values[1]
    ELSE None

\* The lines check_winner scans, as sequences of cell values.
RowValues(board, i) == [k \in 1 .. board.width |-> board.grid[i][k - 1]]
ColValues(board, j) == [k \in 1 .. board.height |-> board.grid[k - 1][j]]
DiagValues(board) == [k \in 1 .. board.width |-> board.grid[k - 1][k - 1]]
AntiDiagValues(board) ==
    [k \in 1 .. board.width |-> board.grid[k - 1][board.width - 1 - (k - 1)]]

\* `if result: return result`: the first result unless it is None.
FirstOf(result, rest) == IF result # None THEN result ELSE rest

\* First row, from row i on, whose cells are all one symbol; None if none.
RECURSIVE ScanRows(_, _)
ScanRows(board, i) ==
    IF i >= board.height THEN None
    ELSE FirstOf(check_equal(RowValues(board, i)), ScanRows(board, i + 1))

RECURSIVE ScanCols(_, _)
ScanCols(board, j) ==
    IF j >= board.width THEN None
    ELSE FirstOf(check_equal(ColValues(board, j)), ScanCols(board, j + 1))

\* check_winner without the scan of the anti-diagonal.
check_winner_no_anti_diagonal(board) ==
    FirstOf(ScanRows(board, 0),
            FirstOf(ScanCols(board, 0),
                    IF board.width = board.height
                    THEN check_equal(DiagValues(board))
                    ELSE None))

\* Board.check_winner: rows, then columns, then (square boards) diagonals.
check_winner(board) ==
    FirstOf(ScanRows(board, 0),
            FirstOf(ScanCols(board, 0),
                    IF board.width = board.height
                    THEN FirstOf(check_equal(DiagValues(board)),
                                 check_equal(AntiDiagValues(board)))
                    ELSE None))

\* Some line check_winner scans is filled with symbol.
HasLine(board, symbol) ==
    \/ \E i \in 0 .. board.height - 1 : check_equal(RowValues(board, i)) = symbol
    \/ \E j \in 0 .. board.width - 1 : check_equal(ColValues(board, j)) = symbol
    \/ /\ board.width = board.height
       /\ \/ check_equal(DiagValues(board)) = symbol
          \/ check_equal(AntiDiagValues(board)) = symbol

\* Both symbols have a filled line.
TwoWinners(board) == HasLine(board, "X") /\ HasLine(board, "O")

\* list.remove(x): drops the first occurrence of x (x is in the list).
RECURSIVE ListRemove(_, _)
ListRemove(list, x) ==
    IF Head(list) = x THEN Tail(list)
    ELSE <<Head(list)>> \o ListRemove(Tail(list), x)

InList(list, x) == \E k \in 1 .. Len(list) : list[k] = x

\* make_move with the grid written before the occupancy check.
make_move_write_first(board, symbol, position) ==
    IF \/ position[1] < 0
       \/ position[1] >= board.height
       \/ position[2] < 0
       \/ position[2] >= board.width
    THEN [board EXCEPT !.err = "InvalidPosition"]
    ELSE IF board.grid[position[1]][position[2]] # None
    THEN [board EXCEPT !.grid[position[1]][position[2]] = symbol,
                       !.err = "CellOccupied"]
    ELSE IF ~InList(board.empty_positions, position)
    THEN [board EXCEPT !.grid[position[1]][position[2]] = symbol,
                       !.err = "RemoveValueError"]
    ELSE [board EXCEPT !.grid[position[1]][position[2]] = symbol,
                       !.empty_positions = ListRemove(@, position),
                       !.err = "none"]

\* make_move leaving the position in empty_positions.
make_move_keeps_position(board, symbol, position) ==
    IF \/ position[1] < 0
       \/ position[1] >= board.height
       \/ position[2] < 0
       \/ position[2] >= board.width
    THEN [board EXCEPT !.err = "InvalidPosition"]
    ELSE IF board.grid[position[1]][position[2]] # None
    THEN [board EXCEPT !.err = "CellOccupied"]
    ELSE [board EXCEPT !.grid[position[1]][position[2]] = symbol,
                       !.err = "none"]

\* Board.make_move.  The bounds check and the occupancy check precede the
\* mutation; list.remove raises ValueError after the grid was written when
\* the position is not in empty_positions.
make_move(board, symbol, position) ==
    IF \/ position[1] < 0
       \/ position[1] >= board.height
       \/ position[2] < 0
       \/ position[2] >= board.width
    THEN [board EXCEPT !.err = "InvalidPosition"]
    ELSE IF board.grid[position[1]][position[2]] # None
    THEN [board EXCEPT !.err = "CellOccupied"]
    ELSE IF ~InList(board.empty_positions, position)
    THEN [board EXCEPT !.grid[position[1]][position[2]] = symbol,
                       !.err = "RemoveValueError"]
    ELSE [board EXCEPT !.grid[position[1]][position[2]] = symbol,
                       !.empty_positions = ListRemove(@, position),
                       !.err = "none"]

\* Python list indexing: index k of a list of n items addresses item k for
\* 0 <= k < n and item n + k for -n <= k < 0; anything else is IndexError.
IndexOk(k, n) == -n <= k /\ k < n
Index(k, n) == IF k < 0 THEN n + k ELSE k

\* undo_move with the append made before the occupancy check.
undo_move_append_first(board, position) ==
    IF ~IndexOk(position[1], board.height) \/ ~IndexOk(position[2], board.width)
    THEN [board EXCEPT !.err = "IndexError"]
    ELSE LET i == Index(position[1], board.height)
             j == Index(position[2], board.width)
         IN  IF board.grid[i][j] = None
             THEN [board EXCEPT !.empty_positions = Append(@, position),
                                !.err = "CellNotOccupied"]
             ELSE [board EXCEPT !.grid[i][j] = None,
                                !.empty_positions = Append(@, position),
                                !.err = "none"]

\* Board.undo_move.  No bounds check: the position indexes the grid as
\* Python does, and the tuple is appended to empty_positions as given.
undo_move(board, position) ==
    IF ~IndexOk(position[1], board.height) \/ ~IndexOk(position[2], board.width)
    THEN [board EXCEPT !.err = "IndexError"]
    ELSE LET i == Index(position[1], board.height)
             j == Index(position[2], board.width)
         IN  IF board.grid[i][j] = None
             THEN [board EXCEPT !.err = "CellNotOccupied"]
             ELSE [board EXCEPT !.grid[i][j] = None,
                                !.empty_positions = Append(@, position),
                                !.err = "none"]

-----------------------------------------------------------------------------
(* ComputerPlayer.  self is a record [symbol, strategy, max_depth]. *)

Opponent(symbol) == IF symbol = "X" THEN "O" ELSE "X"

\* list.count
Count(line, v) == Cardinality({k \in 1 .. Len(line) : line[k] = v})

\* The line length evaluate_line compares its counts with.
LineLen == 3

\* ComputerPlayer.evaluate_line
evaluate_line(self, line) ==
    LET player_count == Count(line, self.symbol)
        opponent_count == Count(line, Opponent(self.symbol))
        empty_count == Count(line, None)
    IN  IF player_count = LineLen THEN 100
        ELSE IF opponent_count = LineLen THEN -100
        ELSE IF player_count = 2 /\ empty_count = 1 THEN 10
        ELSE IF opponent_count = 2 /\ empty_count = 1 THEN -90
        ELSE IF player_count = 1 /\ empty_count = 2 THEN 1
        ELSE IF opponent_count = 1 /\ empty_count = 2 THEN -1
        ELSE 0

RECURSIVE SumLines(_, _, _)
\* Sum of evaluate_line over the lines f[0], ..., f[n - 1].
SumLines(self, f, n) ==
    IF n = 0 THEN 0
    ELSE SumLines(self, f, n - 1) + evaluate_line(self, f[n - 1])

\* ComputerPlayer.evaluate_heuristic: rows, columns and the two diagonals of
\* the leading min(height, width) square, minus depth.
evaluate_heuristic(self, board, depth) ==
    LET m == Min(board.height, board.width)
        diag == [k \in 1 .. m |-> board.grid[k - 1][k - 1]]
        anti == [k \in 1 .. m |-> board.grid[k - 1][board.width - 1 - (k - 1)]]
    IN  SumLines(self, [i \in 0 .. board.height - 1 |-> RowValues(board, i)],
                 board.height)
        + SumLines(self, [j \in 0 .. board.width - 1 |-> ColValues(board, j)],
                   board.width)
        + evaluate_line(self, diag)
        + evaluate_line(self, anti)
        - depth

\* The None of evaluate_board.
NoScore == <<>>

\* terminal_score with the depth added to the score of a loss the wrong way.
terminal_score_loss_deeper_worse(self, board, depth, winner) ==
    IF winner # None
    THEN IF winner = self.symbol
         THEN <<WinScore - depth>>
         ELSE <<-WinScore - depth>>
    ELSE IF is_full(board) THEN <<0>>
    ELSE NoScore

\* The branches of evaluate_board on winner, the result of check_winner.
terminal_score(self, board, depth, winner) ==
    IF winner # None
    THEN IF winner = self.symbol
         THEN <<WinScore - depth>>
         ELSE <<-WinScore + depth>>
    ELSE IF is_full(board) THEN <<0>>
    ELSE NoScore

\* evaluate_board with the full-board test made before the winner test.
evaluate_board_full_first(self, board, depth) ==
    IF is_full(board) THEN <<0>>
    ELSE terminal_score(self, board, depth, check_winner(board))

\* ComputerPlayer.evaluate_board: <<score>> for the terminal score, NoScore
\* for the None of a board that is not terminal.
evaluate_board(self, board, depth) ==
    terminal_score(self, board, depth, check_winner(board))

\* Same grid and same members of empty_positions, in whatever order.
SameBoard(a, b) ==
    /\ a.grid = b.grid
    /\ {a.empty_positions[k] : k \in 1 .. Len(a.empty_positions)}
         = {b.empty_positions[k] : k \in 1 .. Len(b.empty_positions)}

\* What a minimax call hands back: best_score is its return value, board is
\* the board as the call left it (err set when a board operation raised
\* inside the call), and restored says that every call below it, and the
\* call itself, returned with the board it was entered with (SameBoard);
\* deepest is the greatest depth minimax was called with, in the call and
\* below it; two_winners says that check_winner was called, in the call or
\* below it, on a board with filled lines of both symbols.
Ret(score, board, restored, deepest) ==
    [best_score |-> score, board |-> board, restored |-> restored,
     deepest |-> deepest, two_winners |-> FALSE]

\* The arguments of a minimax call.
Call(self, board, depth, is_maximizing, use_alpha_beta, alpha, beta) ==
    [self |-> self, board |-> board, depth |-> depth, is_maximizing |-> is_maximizing,
     use_alpha_beta |-> use_alpha_beta, alpha |-> alpha, beta |-> beta]

\* A raise inside a loop ends the search: the board stays as the raise left it.
Raised(s, b) == [s EXCEPT !.board = b, !.restored = FALSE]

\* The loops of get_max_score and get_min_score run over board.empty_cells,
\* the list itself, which make_move shortens and undo_move extends while the
\* loop runs: the pass with index i takes the item at index i of the list as
\* it is then, and the loop ends when i reaches the length of the list.  s is
\* the state of the loop: the board, i, best_score, alpha or beta, restored
\* (as in Ret) and brk (the break was taken); the state the loop ends in is
\* what the call hands back.  search is the minimax function the passes
\* recurse through.

\* get_max_score, after undo_move: the rest of the pass.
max_undone(use_alpha_beta, beta, s, r, undone) ==
    LET best == Max(r.best_score, s.best_score)
        a == IF use_alpha_beta THEN Max(s.alpha, best) ELSE s.alpha
    IN  [board |-> undone, i |-> s.i + 1, best_score |-> best, alpha |-> a,
         restored |-> s.restored /\ r.restored /\ SameBoard(s.board, undone),
         deepest |-> Max(s.deepest, r.deepest),
         two_winners |-> s.two_winners \/ r.two_winners,
         brk |-> use_alpha_beta /\ beta <= a]

\* get_max_score, after the recursive call returned r.
max_searched(use_alpha_beta, beta, s, cell, r) ==
    IF r.board.err # "none" THEN Raised(s, r.board)
    ELSE max_undone(use_alpha_beta, beta, s, r, undo_move(r.board, cell))

\* get_max_score, after board.make_move(self, cell) gave made.
max_made(search, self, depth, use_alpha_beta, beta, s, cell, made) ==
    IF made.err # "none" THEN Raised(s, made)
    ELSE max_searched(use_alpha_beta, beta, s, cell,
                      search[Call(self, made, depth + 1, FALSE, use_alpha_beta,
                                  s.alpha, beta)])

\* The loop of get_max_score (for cell in board.empty_cells): s is the state
\* of the loop and tried lists the cells the passes took, in order.
max_loop(search, self, board, depth, use_alpha_beta, alpha, beta) ==
    LET loop[p \in Any] ==
            IF \/ p.s.brk
               \/ p.s.board.err # "none"
               \/ p.s.i >= Len(p.s.board.empty_positions)
            THEN p
            ELSE loop[[s |-> max_made(search, self, depth, use_alpha_beta, beta, p.s,
                                      p.s.board.empty_positions[p.s.i + 1],
                                      make_move(p.s.board, self.symbol,
                                                p.s.board.empty_positions[p.s.i + 1])),
                       tried |-> Append(p.tried, p.s.board.empty_positions[p.s.i + 1])]]
    IN  loop[[s |-> [board |-> board, i |-> 0, best_score |-> NegInf,
                     alpha |-> alpha, restored |-> TRUE, deepest |-> depth,
                     two_winners |-> FALSE, brk |-> FALSE],
              tried |-> <<>>]]

\* ComputerPlayer.get_max_score
get_max_score(search, self, board, depth, use_alpha_beta, alpha, beta) ==
    max_loop(search, self, board, depth, use_alpha_beta, alpha, beta).s

\* get_min_score, after undo_move: the rest of the pass.
min_undone(use_alpha_beta, alpha, s, r, undone) ==
    LET best == Min(r.best_score, s.best_score)
        b == IF use_alpha_beta THEN Min(s.beta, best) ELSE s.beta
    IN  [board |-> undone, i |-> s.i + 1, best_score |-> best, beta |-> b,
         restored |-> s.restored /\ r.restored /\ SameBoard(s.board, undone),
         deepest |-> Max(s.deepest, r.deepest),
         two_winners |-> s.two_winners \/ r.two_winners,
         brk |-> use_alpha_beta /\ b <= alpha]

\* min_searched with the pruning break taken before undo_move.
min_searched_break_before_undo(use_alpha_beta, alpha, s, cell, r) ==
    IF r.board.err # "none" THEN Raised(s, r.board)
    ELSE min_undone(use_alpha_beta, alpha, s, r,
                    IF /\ use_alpha_beta
                       /\ Min(s.beta, Min(r.best_score, s.best_score)) <= alpha
                    THEN r.board
                    ELSE undo_move(r.board, cell))

\* get_min_score, after the recursive call returned r.
min_searched(use_alpha_beta, alpha, s, cell, r) ==
    IF r.board.err # "none" THEN Raised(s, r.board)
    ELSE min_undone(use_alpha_beta, alpha, s, r, undo_move(r.board, cell))

\* get_min_score, after board.make_move(opponent, cell) gave made.
min_made(search, self, depth, use_alpha_beta, alpha, s, cell, made) ==
    IF made.err # "none" THEN Raised(s, made)
    ELSE min_searched(use_alpha_beta, alpha, s, cell,
                      search[Call(self, made, depth + 1, TRUE, use_alpha_beta,
                                  alpha, s.beta)])

\* The loop of get_min_score (for cell in board.empty_cells), as max_loop.
min_loop(search, self, board, depth, use_alpha_beta, alpha, beta) ==
    LET loop[p \in Any] ==
            IF \/ p.s.brk
               \/ p.s.board.err # "none"
               \/ p.s.i >= Len(p.s.board.empty_positions)
            THEN p
            ELSE loop[[s |-> min_made(search, self, depth, use_alpha_beta, alpha, p.s,
                                      p.s.board.empty_positions[p.s.i + 1],
                                      make_move(p.s.board, Opponent(self.symbol),
                                                p.s.board.empty_positions[p.s.i + 1])),
                       tried |-> Append(p.tried, p.s.board.empty_positions[p.s.i + 1])]]
    IN  loop[[s |-> [board |-> board, i |-> 0, best_score |-> Inf, beta |-> beta,
                     restored |-> TRUE, deepest |-> depth,
                     two_winners |-> FALSE, brk |-> FALSE],
              tried |-> <<>>]]

\* ComputerPlayer.get_min_score
get_min_score(search, self, board, depth, use_alpha_beta, alpha, beta) ==
    min_loop(search, self, board, depth, use_alpha_beta, alpha, beta).s

\* minimax with the depth cutoff tested before the terminal score.
minimax_scored_cutoff_first(search, a, score) ==
    IF a.depth = a.self.max_depth
    THEN Ret(evaluate_heuristic(a.self, a.board, a.depth), a.board, TRUE, a.depth)
    ELSE IF score # NoScore THEN Ret(score[1], a.board, TRUE, a.depth)
    ELSE IF a.is_maximizing
    THEN get_max_score(search, a.self, a.board, a.depth, a.use_alpha_beta,
                       a.alpha, a.beta)
    ELSE get_min_score(search, a.self, a.board, a.depth, a.use_alpha_beta,
                       a.alpha, a.beta)

\* minimax that stops at a full board or at max_depth, not at a winner.
minimax_scored_past_winner(search, a, score) ==
    IF score # NoScore /\ is_full(a.board)
    THEN Ret(score[1], a.board, TRUE, a.depth)
    ELSE IF a.depth = a.self.max_depth
    THEN Ret(evaluate_heuristic(a.self, a.board, a.depth), a.board, TRUE, a.depth)
    ELSE IF a.is_maximizing
    THEN get_max_score(search, a.self, a.board, a.depth, a.use_alpha_beta,
                       a.alpha, a.beta)
    ELSE get_min_score(search, a.self, a.board, a.depth, a.use_alpha_beta,
                       a.alpha, a.beta)

\* ComputerPlayer.minimax after evaluate_board gave score; a is the Call.
minimax_scored(search, a, score) ==
    IF score # NoScore THEN Ret(score[1], a.board, TRUE, a.depth)
    ELSE IF a.depth = a.self.max_depth
    THEN Ret(evaluate_heuristic(a.self, a.board, a.depth), a.board, TRUE, a.depth)
    ELSE IF a.is_maximizing
    THEN get_max_score(search, a.self, a.board, a.depth, a.use_alpha_beta,
                       a.alpha, a.beta)
    ELSE get_min_score(search, a.self, a.board, a.depth, a.use_alpha_beta,
                       a.alpha, a.beta)

\* ComputerPlayer.minimax, as a function of its arguments: evaluate_board
\* calls check_winner on the board of the call.
minimax_fn[a \in Any] ==
    [minimax_scored(minimax_fn, a, evaluate_board(a.self, a.board, a.depth))
        EXCEPT !.two_winners = @ \/ TwoWinners(a.board)]

minimax(self, board, depth, is_maximizing, use_alpha_beta, alpha, beta) ==
    minimax_fn[Call(self, board, depth, is_maximizing, use_alpha_beta, alpha, beta)]

\* The None of best_move.
NoMove == <<>>

\* The update of best_score, best_move and alpha in get_best_move, where
\* better says whether the score of the cell replaces the best one.
\* considered lists the cells and scores of the passes, in order, as the
\* pass prints them.
best_update(use_alpha_beta, s, cell, r, undone, better) ==
    LET best == IF better THEN r.best_score ELSE s.best_score
        a == IF use_alpha_beta THEN Max(s.alpha, best) ELSE s.alpha
    IN  [board |-> undone,
         i |-> s.i + 1,
         best_score |-> best,
         best_move |-> IF better THEN cell ELSE s.best_move,
         considered |-> Append(s.considered, <<cell, r.best_score>>),
         alpha |-> a,
         restored |-> s.restored /\ r.restored /\ SameBoard(s.board, undone),
         deepest |-> Max(s.deepest, r.deepest),
         two_winners |-> s.two_winners \/ r.two_winners,
         brk |-> use_alpha_beta /\ Inf <= a]

\* best_undone keeping the position of the lowest score.
best_undone_keeps_lowest(use_alpha_beta, s, cell, r, undone) ==
    best_update(use_alpha_beta, s, cell, r, undone,
                s.best_move = NoMove \/ r.best_score < s.best_score)

\* best_undone where a score equal to the best one replaces it too.
best_undone_replaces_on_equal(use_alpha_beta, s, cell, r, undone) ==
    best_update(use_alpha_beta, s, cell, r, undone, r.best_score >= s.best_score)

\* get_best_move, after undo_move: a strictly greater score replaces the best.
best_undone(use_alpha_beta, s, cell, r, undone) ==
    best_update(use_alpha_beta, s, cell, r, undone, r.best_score > s.best_score)

\* get_best_move, after minimax returned r.
best_searched(use_alpha_beta, s, cell, r) ==
    IF r.board.err # "none" THEN Raised(s, r.board)
    ELSE best_undone(use_alpha_beta, s, cell, r, undo_move(r.board, cell))

\* get_best_move, after board.make_move(self, cell) gave made.
best_made(self, use_alpha_beta, s, cell, made) ==
    IF made.err # "none" THEN Raised(s, made)
    ELSE best_searched(use_alpha_beta, s, cell,
                       minimax(self, made, 0, FALSE, use_alpha_beta, s.alpha, Inf))

\* best_result returning best_move when it is None.
best_result_no_raise(s) ==
    [move |-> s.best_move,
     score |-> s.best_score,
     considered |-> s.considered,
     deepest |-> s.deepest,
     two_winners |-> s.two_winners,
     board |-> s.board,
     restored |-> s.restored]

\* What get_best_move hands back: the chosen position (NoMove with err
\* "NoValidMove" when there was none), its score, the board as the call
\* left it, and restored as in Ret.
best_result(s) ==
    [move |-> s.best_move,
     score |-> s.best_score,
     considered |-> s.considered,
     deepest |-> s.deepest,
     two_winners |-> s.two_winners,
     board |-> IF s.board.err = "none" /\ s.best_move = NoMove
               THEN [s.board EXCEPT !.err = "NoValidMove"]
               ELSE s.board,
     restored |-> s.restored]

\* ComputerPlayer.get_best_move.  The loop runs over options, the copy of
\* empty_positions taken before it.
get_best_move(self, board, use_alpha_beta) ==
    LET loop[s \in Any] ==
            IF \/ s.brk
               \/ s.board.err # "none"
               \/ s.i >= Len(board.empty_positions)
            THEN s
            ELSE loop[best_made(self, use_alpha_beta, s,
                                board.empty_positions[s.i + 1],
                                make_move(s.board, self.symbol,
                                          board.empty_positions[s.i + 1]))]
    IN  best_result(loop[[board |-> board, i |-> 0, best_score |-> NegInf,
                          best_move |-> NoMove, considered |-> <<>>,
                          alpha |-> NegInf,
                          restored |-> TRUE, deepest |-> 0,
                          two_winners |-> FALSE, brk |-> FALSE]])

-----------------------------------------------------------------------------
(* State.  board is the Board object (its err field stays "none": what a  *)
(* call raised is kept in last); last describes the last call made; self  *)
(* is the ComputerPlayer that searches; player_1 is the symbol of           *)
(* Game.player_1 and turn_counter is Game.turn_counter; calls counts the   *)
(* calls made on the board from outside.                                   *)
VARIABLES board, last, self, player_1, turn_counter, calls
vars == <<board, last, self, player_1, turn_counter, calls>>

\* The object a call leaves behind, and the exception it raised.
Object(b) == [b EXCEPT !.err = "none"]

NoPlayer == [symbol |-> None, strategy |-> 0, max_depth |-> 0]

-----------------------------------------------------------------------------
(* Board under arbitrary calls: any caller may call make_move and undo_move *)
(* with any symbol and any pair of integers.                                *)

\* Largest width and height of the boards constructed.
MaxSide == 2
\* Number of calls made on one board.
MaxCalls == 4

Coords == -MaxSide .. MaxSide
Positions == Coords \X Coords

Init ==
    /\ \E w \in 1 .. MaxSide, h \in 1 .. MaxSide : board = Board(w, h)
    /\ last = [op |-> "init", err |-> "none"]
    /\ self = NoPlayer
    /\ player_1 = None
    /\ turn_counter = 0
    /\ calls = 0

MakeMove(symbol, position) ==
    /\ calls < MaxCalls
    /\ calls' = calls + 1
    /\ \E r \in {make_move(board, symbol, position)} :
         /\ board' = Object(r)
         /\ last' = [op |-> "make_move", err |-> r.err]
    /\ UNCHANGED <<self, player_1, turn_counter>>

UndoMove(position) ==
    /\ calls < MaxCalls
    /\ calls' = calls + 1
    /\ \E r \in {undo_move(board, position)} :
         /\ board' = Object(r)
         /\ last' = [op |-> "undo_move", err |-> r.err]
    /\ UNCHANGED <<self, player_1, turn_counter>>

\* A caller's make_move followed at once by undo_move of the same position,
\* as in the body of the search loops; a raise in make_move ends the pair.
make_then_undo(b, symbol, position) ==
    LET made == make_move(b, symbol, position)
    IN  IF made.err # "none" THEN made ELSE undo_move(made, position)

MakeThenUndo(symbol, position) ==
    /\ calls < MaxCalls
    /\ calls' = calls + 1
    /\ \E r \in {make_then_undo(board, symbol, position)} :
         /\ board' = Object(r)
         /\ last' = [op |-> "make_then_undo", err |-> r.err]
    /\ UNCHANGED <<self, player_1, turn_counter>>

Next ==
    \/ \E symbol \in Symbols, position \in Positions : MakeMove(symbol, position)
    \/ \E position \in Positions : UndoMove(position)
    \/ \E symbol \in Symbols, position \in Positions : MakeThenUndo(symbol, position)

Spec == Init /\ [][Next]_vars

-----------------------------------------------------------------------------
(* A game on the N x N board between the ComputerPlayer self and another   *)
(* player who makes any legal move (SpecSearch, SpecGame).                  *)

\* Board side of Game.__init__.
N == 3
\* Largest max_depth the players of SpecSearch are constructed with.
MaxDepth == 3

\* ComputerPlayer.make_move for the strategies 2 (minimax) and 3 (alpha-beta):
\* get_best_move, then board.make_move of the position it returned.  found is
\* what get_best_move returned.
\* apply_found without the board.make_move of the position found.
apply_found_skips_move(player, found) ==
    [found |-> found, board |-> found.board]

\* ComputerPlayer.make_move after get_best_move returned found.
apply_found(player, found) ==
    [found |-> found,
     board |-> IF found.board.err # "none" THEN found.board
               ELSE make_move(found.board, player.symbol, found.move)]

computer_make_move(player, b) ==
    apply_found(player, get_best_move(player, b, player.strategy = 3))

\* Game.play_turn: player_1 moves when turn_counter is even.
current_player == IF turn_counter % 2 = 0 THEN player_1 ELSE Opponent(player_1)

\* The condition of the loop of Game.play.
Playing == check_winner(board) = None /\ ~is_full(board)

\* The position of the end-to-end test: X at (0, 0) and (0, 1), O at (1, 0).
TestBoard ==
    make_move(make_move(make_move(Board(N, N), "X", <<0, 0>>),
                        "X", <<0, 1>>),
              "O", <<1, 0>>)

\* Games start from the empty board or from the test position, with either
\* player to move.
InitSearch ==
    /\ board \in {Board(N, N), TestBoard}
    /\ last = [op |-> "init", err |-> "none"]
    /\ self \in [symbol : Symbols, strategy : {1, 2, 3}, max_depth : 0 .. MaxDepth]
    /\ player_1 \in Symbols
    /\ turn_counter = 0
    /\ calls = 0

\* Depths above N * N that the players of SpecGame are constructed with.
ExtraDepth == 1

\* The searching player moves first, with max_depth at least N * N.
InitGame ==
    /\ board = Board(N, N)
    /\ last = [op |-> "init", err |-> "none"]
    /\ self \in [symbol : Symbols, strategy : {2, 3},
                 max_depth : N * N .. N * N + ExtraDepth]
    /\ player_1 = self.symbol
    /\ turn_counter = 0
    /\ calls = 0

\* A turn of the player facing self: any empty cell.
OtherTurn(position) ==
    /\ Playing
    /\ current_player # self.symbol
    /\ board.grid[position[1]][position[2]] = None
    /\ board' = Object(make_move(board, current_player, position))
    /\ last' = [op |-> "make_move", err |-> "none"]
    /\ turn_counter' = turn_counter + 1
    /\ UNCHANGED <<self, player_1, calls>>

\* ComputerPlayer.random_move: board.make_move of the item random.choice
\* takes from empty_positions, the one at index k (from 1).
random_move(player, b, k) == make_move(b, player.symbol, b.empty_positions[k])

\* A turn of self, ComputerPlayer.make_move: random_move for the strategy 1,
\* get_best_move and board.make_move for the strategies 2 and 3.  last keeps
\* the board as the call found it (before) and, for a search, the board as
\* get_best_move left it (searched) and what it returned.
ComputerTurn ==
    /\ Playing
    /\ current_player = self.symbol
    /\ \/ /\ self.strategy = 1
          /\ \E k \in 1 .. Len(board.empty_positions) :
               \E r \in {random_move(self, board, k)} :
                 /\ board' = Object(r)
                 /\ last' = [op |-> "random_move",
                             err |-> r.err,
                             before |-> board,
                             move |-> board.empty_positions[k]]
       \/ /\ self.strategy \in {2, 3}
          /\ \E r \in {computer_make_move(self, board)} :
               /\ board' = Object(r.board)
               /\ last' = [op |-> "computer_move",
                           err |-> r.board.err,
                           before |-> board,
                           searched |-> r.found.board,
                           move |-> r.found.move,
                           score |-> r.found.score,
                           considered |-> r.found.considered,
                           deepest |-> r.found.deepest,
                           two_winners |-> r.found.two_winners,
                           restored |-> r.found.restored]
    /\ turn_counter' = turn_counter + 1
    /\ UNCHANGED <<self, player_1, calls>>

\* A caller's get_best_move on a full board, a call the loop of Game.play
\* never makes.
SelectOnFull(use_alpha_beta) ==
    /\ is_full(board)
    /\ self.strategy \in {2, 3}
    /\ \E r \in {get_best_move(self, board, use_alpha_beta)} :
         /\ board' = Object(r.board)
         /\ last' = [op |-> "get_best_move",
                     err |-> r.board.err,
                     before |-> board,
                     move |-> r.move,
                     use_alpha_beta |-> use_alpha_beta]
    /\ UNCHANGED <<self, player_1, turn_counter, calls>>

NextPlay ==
    \/ \E position \in Cells(board) : OtherTurn(position)
    \/ ComputerTurn
    \/ \E use_alpha_beta \in BOOLEAN : SelectOnFull(use_alpha_beta)

SpecSearch == InitSearch /\ [][NextPlay]_vars
SpecGame == InitGame /\ [][NextPlay]_vars

-----------------------------------------------------------------------------
(* Properties of the search (SpecSearch, SpecGame). *)

\* The player has an empty cell that completes a line of its symbol.
CanWin(b, symbol) ==
    \E c \in Cells(b) :
        /\ b.grid[c[1]][c[2]] = None
        /\ check_winner([b EXCEPT !.grid[c[1]][c[2]] = symbol]) = symbol

\* C2: whenever get_best_move has returned, it and every minimax,
\* get_max_score and get_min_score call below it returned with the grid and
\* the members of empty_positions it was entered with, and no board
\* operation raised.
C2_SearchRestoresBoard ==
    last.op = "computer_move" =>
        /\ last.restored
        /\ SameBoard(last.before, last.searched)
        /\ last.searched.err = "none"

\* An alpha-beta search has returned and left the list in another order.
C2_Witness ==
    /\ last.op = "computer_move"
    /\ self.strategy = 3
    /\ last.restored
    /\ last.searched.empty_positions # last.before.empty_positions

\* C3: on every board where self is to move, get_best_move returns the same
\* position with and without alpha-beta pruning.
C3_PruningSameMove ==
    (Playing /\ current_player = self.symbol) =>
        get_best_move(self, board, TRUE).move
            = get_best_move(self, board, FALSE).move

\* C4: when self moves first with max_depth >= N * N against any replies,
\* no state has a line of the other player's symbol.
C4_NeverLoses == check_winner(board) # Opponent(self.symbol)

\* C5: when the plain minimax player has a cell that completes a line of its
\* symbol, the position get_best_move returns wins at once, with score 1000;
\* on the test position X plays (0, 2).
C5_TakesImmediateWin ==
    (last.op = "computer_move" /\ self.strategy = 2) =>
        /\ CanWin(last.before, self.symbol) =>
             /\ check_winner(board) = self.symbol
             /\ last.score = WinScore
        /\ (last.before = TestBoard /\ self.symbol = "X") =>
             /\ last.move = <<0, 2>>
             /\ last.score = WinScore

\* X has searched the test position and played (0, 2).
C5_Witness ==
    /\ last.op = "computer_move"
    /\ self.strategy = 2
    /\ last.before = TestBoard
    /\ last.move = <<0, 2>>
    /\ check_winner(board) = "X"

\* C6: on the empty board the plain minimax player X with
\* max_depth >= N * N plays a corner or the center, never an edge.
C6_FirstMoveCornerOrCenter ==
    (/\ last.op = "computer_move"
     /\ last.before = Board(N, N)
     /\ self.symbol = "X"
     /\ self.strategy = 2)
    => last.move \in {<<0, 0>>, <<0, 2>>, <<2, 0>>, <<2, 2>>, <<1, 1>>}

C6_Witness ==
    /\ last.op = "computer_move"
    /\ last.before = Board(N, N)
    /\ self = [symbol |-> "X", strategy |-> 2, max_depth |-> N * N]
    /\ board.grid[0][0] = "X"

\* The members of a Python list.
Members(list) == {list[k] : k \in 1 .. Len(list)}

\* after is before with exactly one legal move of symbol applied: one cell
\* that was empty holds symbol, every other cell is as it was, and
\* empty_positions has lost that position and nothing else.
OneMoveApplied(before, after, symbol) ==
    \E c \in Cells(before) :
        /\ before.grid[c[1]][c[2]] = None
        /\ after.grid = [before.grid EXCEPT ![c[1]][c[2]] = symbol]
        /\ Members(after.empty_positions) = Members(before.empty_positions) \ {c}
        /\ Len(after.empty_positions) = Len(before.empty_positions) - 1

\* C11: on every board of a game that has an empty cell, won or not,
\* ComputerPlayer.make_move of self raises nothing and applies exactly one
\* legal move of its symbol, whatever random.choice takes for the strategy 1
\* and with the position get_best_move returns for the strategies 2 and 3.
C11_OneLegalMove ==
    ~is_full(board) =>
        IF self.strategy = 1
        THEN \A k \in 1 .. Len(board.empty_positions) :
                 LET r == random_move(self, board, k)
                 IN  r.err = "none" /\ OneMoveApplied(board, r, self.symbol)
        ELSE LET r == computer_make_move(self, board).board
             IN  r.err = "none" /\ OneMoveApplied(board, r, self.symbol)

\* Turns of each kind have been played.
C11_Witness ==
    /\ last.op \in {"random_move", "computer_move"}
    /\ turn_counter >= 3
    /\ OneMoveApplied(last.before, board, self.symbol)

\* C12: get_best_move called on a board with no empty cell, with or without
\* pruning, raises NoValidMove, returns no position and leaves the board as
\* it was.
C12_NoValidMove ==
    last.op = "get_best_move" =>
        /\ last.err = "NoValidMove"
        /\ last.move = NoMove
        /\ board = last.before

\* get_best_move has been called on a full board, with pruning.
C12_Witness ==
    /\ last.op = "get_best_move"
    /\ last.use_alpha_beta
    /\ is_full(last.before)
    /\ turn_counter = N * N

\* The symbol a turn has placed: some cell that was empty holds it.
Placed(symbol) ==
    \E c \in Cells(board) :
        /\ board.grid[c[1]][c[2]] = None
        /\ board'.grid[c[1]][c[2]] = symbol

\* C13: whatever symbol player 1 has, the first turn of a game places X and
\* the turns then alternate: the turn played when turn_counter is even
\* places X, the one played when it is odd places O.
C13_XFirstThenAlternate ==
    [][turn_counter' = turn_counter + 1
         => Placed(IF turn_counter % 2 = 0 THEN "X" ELSE "O")]_vars

\* tried holds every item of list exactly once.
TriedEachOnce(tried, list) ==
    /\ Len(tried) = Len(list)
    /\ Members(tried) = Members(list)

\* The scores of the positions of b, each made with symbol and searched at
\* depth + 1 with the flag is_maximizing.
ScoresOfAll(b, symbol, depth, is_maximizing) ==
    {minimax(self, make_move(b, symbol, c), depth + 1, is_maximizing, FALSE,
             NegInf, Inf).best_score : c \in Members(b.empty_positions)}

\* The minimizing level entered on b at depth 0 tries every empty position
\* of b once and hands back the least of their scores.
MinLevelTriesAll(b) ==
    LET p == min_loop(minimax_fn, self, b, 0, FALSE, NegInf, Inf)
        scores == ScoresOfAll(b, Opponent(self.symbol), 0, TRUE)
    IN  /\ TriedEachOnce(p.tried, b.empty_positions)
        /\ p.s.best_score \in scores
        /\ \A x \in scores : p.s.best_score <= x

\* The maximizing level entered on b at depth 1, likewise with the greatest.
MaxLevelTriesAll(b) ==
    LET p == max_loop(minimax_fn, self, b, 1, FALSE, NegInf, Inf)
        scores == ScoresOfAll(b, self.symbol, 1, FALSE)
    IN  /\ TriedEachOnce(p.tried, b.empty_positions)
        /\ p.s.best_score \in scores
        /\ \A x \in scores : p.s.best_score >= x

\* The board the first pass of get_best_move calls minimax on, and the board
\* the first pass of the get_min_score below it calls minimax on.
FirstMade(b) == make_move(b, self.symbol, b.empty_positions[1])
SecondMade(b) == make_move(FirstMade(b), Opponent(self.symbol), FirstMade(b).empty_positions[1])

\* C14: without pruning, the levels of the search the player's turn enters
\* (get_min_score at depth 0 below the first pass of get_best_move, and
\* get_max_score at depth 1 below the first pass of that) try every position
\* that is empty on entry exactly once, and hand back the min (resp. max) of
\* the scores of all the empty positions.
C14_LevelTriesEveryEmpty ==
    (Playing /\ current_player = self.symbol /\ self.strategy = 2) =>
        /\ (self.max_depth > 0 /\ evaluate_board(self, FirstMade(board), 0) = NoScore)
               => MinLevelTriesAll(FirstMade(board))
        /\ (/\ self.max_depth > 1
            /\ evaluate_board(self, FirstMade(board), 0) = NoScore
            /\ evaluate_board(self, SecondMade(board), 1) = NoScore)
               => MaxLevelTriesAll(SecondMade(board))

\* The greatest of the scores in considered.
IsGreatest(considered, k) ==
    \A j \in 1 .. Len(considered) : considered[j][2] <= considered[k][2]

\* C15: get_best_move considers every position of the list of empty positions
\* it was entered with, each once and in the order of that list, and returns
\* the first of the positions whose score is the greatest.
C15_BestMoveFirstGreatest ==
    last.op = "computer_move" =>
        /\ [k \in 1 .. Len(last.considered) |-> last.considered[k][1]]
             = last.before.empty_positions
        /\ \E k \in 1 .. Len(last.considered) :
             /\ last.move = last.considered[k][1]
             /\ last.score = last.considered[k][2]
             /\ IsGreatest(last.considered, k)
             /\ \A j \in 1 .. k - 1 : last.considered[j][2] < last.considered[k][2]

\* A selection among several positions where the greatest score is reached
\* by a later position too.
C15_Witness ==
    /\ last.op = "computer_move"
    /\ turn_counter >= 2
    /\ \E k, j \in 1 .. Len(last.considered) :
         /\ k < j
         /\ last.move = last.considered[k][1]
         /\ last.considered[j][2] = last.score

\* minimax on b at depth hands back score without touching the board.
ReturnsAtOnce(b, depth, score) ==
    \A is_maximizing, use_alpha_beta \in BOOLEAN :
        minimax(self, b, depth, is_maximizing, use_alpha_beta, NegInf, Inf)
            = Ret(score, b, TRUE, depth)

\* C16: no search calls minimax at a depth above max_depth; on a board that
\* is not terminal minimax at depth max_depth returns the heuristic score
\* and simulates no move, and on a terminal board minimax returns the
\* terminal score at every depth, max_depth included.
C16_DepthBounded ==
    /\ last.op = "computer_move" => last.deepest <= self.max_depth
    /\ \A depth \in 0 .. MaxDepth :
         IF evaluate_board(self, board, depth) # NoScore
         THEN ReturnsAtOnce(board, depth, evaluate_board(self, board, depth)[1])
         ELSE depth = self.max_depth
                  => ReturnsAtOnce(board, depth, evaluate_heuristic(self, board, depth))

\* A search that went down to max_depth and met a terminal board there: a
\* position was scored as a win or a loss at depth max_depth.
C16_Witness ==
    /\ last.op = "computer_move"
    /\ self.max_depth >= 1
    /\ last.deepest = self.max_depth
    /\ \E k \in 1 .. Len(last.considered) :
         \/ last.considered[k][2] = WinScore - self.max_depth
         \/ last.considered[k][2] = self.max_depth - WinScore

\* C17: evaluate_board(board, depth) is 1000 - depth when check_winner gives
\* the player's symbol, -(1000 - depth) when it gives the other symbol, 0
\* when there is no winner and the board is full, and None otherwise; a
\* winner on a full board is scored as a win or a loss.
C17_EvaluateBoard ==
    \A depth \in 0 .. N * N :
        evaluate_board(self, board, depth) =
            IF check_winner(board) = self.symbol THEN <<1000 - depth>>
            ELSE IF check_winner(board) = Opponent(self.symbol)
            THEN <<-(1000 - depth)>>
            ELSE IF is_full(board) THEN <<0>>
            ELSE NoScore

\* A game the opponent won with the move that filled the board: the board is
\* full and is scored as a loss.
C17_Witness ==
    /\ last.op = "make_move"
    /\ is_full(board)
    /\ check_winner(board) = Opponent(self.symbol)
    /\ evaluate_board(self, board, 2) = <<-998>>

-----------------------------------------------------------------------------
(* Properties of the board under arbitrary calls (Spec). *)

\* C1: after any sequence of make_move and undo_move calls empty_positions
\* holds exactly the coordinates of the empty cells: every entry is in range
\* and names an empty cell, every empty cell has an entry, no entry twice.
C1_EmptyPositionsExact ==
    LET list == board.empty_positions
    IN  /\ \A k \in 1 .. Len(list) :
             /\ InBounds(board, list[k])
             /\ board.grid[list[k][1]][list[k][2]] = None
        /\ \A c \in Cells(board) :
             board.grid[c[1]][c[2]] = None => InList(list, c)
        /\ \A k, m \in 1 .. Len(list) : list[k] = list[m] => k = m

\* C7: in every board state, for every symbol and position, make_move then
\* undo_move of the same position either both succeed and leave the grid and
\* the members of empty_positions as they were, or make_move fails and the
\* board is unchanged.
C7_MakeUndoRestores ==
    \A symbol \in Symbols, position \in Positions :
        LET made == make_move(board, symbol, position)
        IN  IF made.err = "none"
            THEN LET undone == undo_move(made, position)
                 IN  undone.err = "none" /\ SameBoard(board, undone)
            ELSE Object(made) = board

\* C8: make_move raises InvalidPosition for every position out of bounds and
\* CellOccupied for every occupied cell in bounds, and leaves the grid and
\* empty_positions as they were in both cases.
C8_MakeMoveRejects ==
    \A symbol \in Symbols, position \in Positions :
        LET made == make_move(board, symbol, position)
        IN  /\ ~InBounds(board, position) => made.err = "InvalidPosition"
            /\ (InBounds(board, position)
                  /\ board.grid[position[1]][position[2]] # None)
               => made.err = "CellOccupied"
            /\ made.err \in {"InvalidPosition", "CellOccupied"}
               => Object(made) = board

C8_Witness ==
    /\ last.op = "make_move" /\ last.err = "CellOccupied"
    /\ \E c \in Cells(board) : board.grid[c[1]][c[2]] # None

\* C9: undo_move raises CellNotOccupied whenever the cell it addresses is
\* empty, and an undo_move that raises, whatever it raises, leaves the grid
\* and empty_positions as they were.
C9_UndoMoveRejects ==
    \A position \in Positions :
        LET undone == undo_move(board, position)
        IN  /\ (InBounds(board, position)
                  /\ board.grid[position[1]][position[2]] = None)
               => undone.err = "CellNotOccupied"
            /\ undone.err # "none" => Object(undone) = board

C9_Witness ==
    /\ last.op = "undo_move" /\ last.err = "CellNotOccupied"
    /\ \E c \in Cells(board) : board.grid[c[1]][c[2]] # None

-----------------------------------------------------------------------------
(* Win detection on every grid content (SpecLines): boards of every shape   *)
(* are filled cell by cell with either symbol, and check_winner is asked.  *)

\* Largest width and height, and largest number of cells, of these boards.
LineSide == 3
MaxCells == 9

InitLines ==
    /\ \E w \in 1 .. LineSide, h \in 1 .. LineSide :
         w * h <= MaxCells /\ board = Board(w, h)
    /\ last = [op |-> "init", err |-> "none"]
    /\ self = NoPlayer
    /\ player_1 = None
    /\ turn_counter = 0
    /\ calls = 0

\* make_move of either symbol on an empty cell.
Place(symbol, position) ==
    /\ board.grid[position[1]][position[2]] = None
    /\ board' = Object(make_move(board, symbol, position))
    /\ last' = [op |-> "make_move", err |-> "none"]
    /\ UNCHANGED <<self, player_1, turn_counter, calls>>

CheckWinner ==
    /\ last' = [op |-> "check_winner", err |-> "none",
                result |-> check_winner(board)]
    /\ UNCHANGED <<board, self, player_1, turn_counter, calls>>

NextLines ==
    \/ \E symbol \in Symbols, position \in Cells(board) : Place(symbol, position)
    \/ CheckWinner

SpecLines == InitLines /\ [][NextLines]_vars

\* The lines of a board in scan order, each the sequence of its positions:
\* the rows, the columns and, on a square board, the main diagonal and the
\* anti-diagonal.
LinesOf(b) ==
    [i \in 1 .. b.height |-> [k \in 1 .. b.width |-> <<i - 1, k - 1>>]]
    \o [j \in 1 .. b.width |-> [k \in 1 .. b.height |-> <<k - 1, j - 1>>]]
    \o (IF b.width = b.height
        THEN << [k \in 1 .. b.width |-> <<k - 1, k - 1>>],
                [k \in 1 .. b.width |-> <<k - 1, b.width - k>>] >>
        ELSE << >>)

\* Every cell of the line holds symbol s.
LineOf(b, line, s) == \A k \in 1 .. Len(line) : b.grid[line[k][1]][line[k][2]] = s

\* The symbol of the first line, in scan order, filled with one symbol.
FirstFilledLine(b) ==
    LET lines == LinesOf(b)
        filled == {n \in 1 .. Len(lines) : \E s \in Symbols : LineOf(b, lines[n], s)}
    IN  IF filled = {} THEN None
        ELSE LET first == CHOOSE n \in filled : \A m \in filled : n <= m
             IN  CHOOSE s \in Symbols : LineOf(b, lines[first], s)

\* C10: check_winner returns the symbol of the first row, column or (square
\* boards only) diagonal, in scan order, whose cells all hold one symbol, and
\* no winner when there is no such line.
C10_CheckWinnerLines ==
    /\ check_winner(board) = FirstFilledLine(board)
    /\ last.op = "check_winner" => last.result = FirstFilledLine(board)

\* A full 3 x 3 board without a filled line, asked for its winner.
C10_Witness ==
    /\ last.op = "check_winner" /\ last.result = None
    /\ board.width = 3 /\ board.height = 3 /\ is_full(board)

-----------------------------------------------------------------------------
(* Winning lines and targeted cells of the boards of the play and of the    *)
(* search (SpecSearch, SpecGame).                                           *)

\* The lines of b filled with symbol s.
FilledLines(b, s) == {n \in 1 .. Len(LinesOf(b)) : LineOf(b, LinesOf(b)[n], s)}

\* C19: no board the turn loop reaches, and no board a search calls
\* check_winner on, has a filled line of X and a filled line of O.
C19_OneWinningSymbol ==
    /\ FilledLines(board, "X") = {} \/ FilledLines(board, "O") = {}
    /\ last.op = "computer_move" => ~last.two_winners

\* A search that called check_winner on boards the player had won and on
\* boards the opponent had won (a position scored as a win, another as a
\* loss), followed by the move that wins the game.
C19_Witness ==
    /\ last.op = "computer_move"
    /\ check_winner(board) = self.symbol
    /\ \E k, j \in 1 .. Len(last.considered) :
         /\ last.considered[k][2] >= WinScore - MaxDepth
         /\ last.considered[j][2] <= MaxDepth - WinScore

\* The default of max_depth in ComputerPlayer.__init__.
DefaultMaxDepth == 4

\* empty_positions of b holds exactly the empty cells of b, each once.
ExactEmptySet(b) ==
    /\ Members(b.empty_positions) = {c \in Cells(b) : b.grid[c[1]][c[2]] = None}
    /\ Len(b.empty_positions) = Cardinality(Members(b.empty_positions))

\* What make_move and undo_move raise when the cell they are given is out
\* of the board, not empty (make_move) or not occupied (undo_move).
CellErrors == {"InvalidPosition", "CellOccupied", "CellNotOccupied"}

\* C21: a search started by get_best_move on a board whose empty_positions
\* holds exactly its empty cells gives every make_move an empty cell and
\* every undo_move an occupied one: it ends without CellOccupied,
\* CellNotOccupied or InvalidPosition, although get_max_score and
\* get_min_score loop over the list that make_move and undo_move change.
\* This is stated of the search of every computer turn (max_depth of self:
\* no cutoff before the board is full) and, on every board of the game, of
\* the searches with the default max_depth, with and without pruning.
C21_SearchTargetsValidCells ==
    /\ (last.op = "computer_move" /\ ExactEmptySet(last.before))
           => last.searched.err \notin CellErrors
    /\ ExactEmptySet(board) =>
           \A use_alpha_beta \in BOOLEAN :
               get_best_move([self EXCEPT !.max_depth = DefaultMaxDepth], board,
                             use_alpha_beta).board.err \notin CellErrors

\* A game in play after a plain minimax search that went four levels down
\* and left empty_positions in another order: the searches on this board
\* start from a list the loops have permuted.
C21_Witness ==
    /\ last.op = "computer_move"
    /\ self.strategy = 2
    /\ last.deepest >= 4
    /\ last.searched.empty_positions # last.before.empty_positions
    /\ ExactEmptySet(board)
    /\ Playing
    /\ Len(board.empty_positions) >= 4

-----------------------------------------------------------------------------
(* evaluate_line on the rows of square boards of the sizes the game starts  *)
(* with: 3, the default of Game, up to the default of main.                 *)

\* DEFAULT_BOARD_SIZE of main.py.
DEFAULT_BOARD_SIZE == 4

\* The board of side n whose row 0 holds line and whose other rows are empty.
BoardWithRow(n, line) ==
    [Board(n, n) EXCEPT
        !.grid[0] = [j \in 0 .. n - 1 |-> line[j + 1]],
        !.empty_positions =
            SelectSeq(@, LAMBDA c : c[1] # 0 \/ line[c[2] + 1] = None)]

InitHeuristic ==
    /\ \E n \in N .. DEFAULT_BOARD_SIZE :
         \E line \in [1 .. n -> Symbols \cup {None}] :
            board = BoardWithRow(n, line)
    /\ last = [op |-> "init", err |-> "none"]
    /\ self \in [symbol : Symbols, strategy : {2}, max_depth : {DEFAULT_BOARD_SIZE}]
    /\ player_1 = self.symbol
    /\ turn_counter = 0
    /\ calls = 0

\* evaluate_line on row i of the board, as evaluate_heuristic calls it.
EvaluateLine(i) ==
    /\ last' = [op |-> "evaluate_line", err |-> "none",
                line |-> RowValues(board, i),
                result |-> evaluate_line(self, RowValues(board, i))]
    /\ UNCHANGED <<board, self, player_1, turn_counter, calls>>

NextHeuristic == \E i \in 0 .. board.height - 1 : EvaluateLine(i)

SpecHeuristic == InitHeuristic /\ [][NextHeuristic]_vars

\* The score of a line as stated for a line of the board's side length.
LineScore(line) ==
    LET own == Count(line, self.symbol)
        other == Count(line, Opponent(self.symbol))
        empty == Count(line, None)
    IN  IF own = Len(line) THEN 100
        ELSE IF other = Len(line) THEN -100
        ELSE IF own = 2 /\ empty = 1 THEN 10
        ELSE IF other = 2 /\ empty = 1 THEN -90
        ELSE IF own = 1 /\ empty = 2 THEN 1
        ELSE IF other = 1 /\ empty = 2 THEN -1
        ELSE 0

\* C18: on a line of the board's side length evaluate_line gives +100 when
\* every cell is the player's symbol, -100 when every cell is the opponent's,
\* +10 for two own symbols and one empty cell, -90 for two opponent symbols
\* and one empty cell, +1 / -1 for one own / one opponent symbol and two
\* empty cells, and 0 for every other line.
C18_EvaluateLine ==
    last.op = "evaluate_line" => last.result = LineScore(last.line)

-----------------------------------------------------------------------------
(* Computer against computer: Game.play with two ComputerPlayer of one      *)
(* strategy and the default max_depth, on square boards of side 1 to N.     *)
(* self holds the strategy and max_depth of both players; the player of a   *)
(* turn is self with the symbol of current_player.                          *)

\* check_for_winner restricted to player 1.
check_for_winner_only_player_1(b, p1) ==
    IF check_winner(b) = p1 THEN p1 ELSE None

\* Game.check_for_winner: the player, named by its symbol, whose symbol
\* check_winner gives; None if neither.  p1 is the symbol of player 1.
check_for_winner(b, p1) ==
    IF check_winner(b) = p1 THEN p1
    ELSE IF check_winner(b) = Opponent(p1) THEN Opponent(p1)
    ELSE None

\* Game.display_result: what is printed for winner.
display_result(winner) ==
    IF winner # None THEN [text |-> "wins", symbol |-> winner]
    ELSE [text |-> "tie", symbol |-> None]

\* The game is over for the program: the result is shown, or a turn raised.
Ended == last.op \in {"display_result", "raised"}

\* The condition of the loop of Game.play; winner is the check_for_winner of
\* the board as the last turn left it (None before the first turn).
LoopGoesOn == check_for_winner(board, player_1) = None /\ ~is_full(board)

InitCvC ==
    /\ \E n \in 1 .. N : board = Board(n, n)
    /\ last = [op |-> "init", err |-> "none"]
    /\ self \in [symbol : Symbols, strategy : {1, 2, 3}, max_depth : {DefaultMaxDepth}]
    /\ player_1 = self.symbol
    /\ turn_counter = 0
    /\ calls = 0

\* What a turn leaves: the board r of make_move; a raise ends the program.
TurnDone(r) ==
    /\ board' = Object(r)
    /\ last' = [op |-> IF r.err = "none" THEN "play_turn" ELSE "raised",
                err |-> r.err, before |-> board]
    /\ turn_counter' = IF r.err = "none" THEN turn_counter + 1 ELSE turn_counter
    /\ UNCHANGED <<self, player_1, calls>>

\* ComputerPlayer.make_move of player on b: the boards it can leave, one
\* for each item random.choice can take (strategy 1), the one of the
\* position get_best_move returns (strategies 2 and 3).
make_move_results(player, b) ==
    IF player.strategy = 1
    THEN {random_move(player, b, k) : k \in 1 .. Len(b.empty_positions)}
    ELSE {computer_make_move(player, b).board}

\* One pass of the loop of Game.play: play_turn of current_player.
PlayTurn ==
    /\ ~Ended
    /\ LoopGoesOn
    /\ \E r \in make_move_results([self EXCEPT !.symbol = current_player], board) :
         TurnDone(r)

\* The end of Game.play: display_result(winner) once the loop has ended.
DisplayResult ==
    /\ ~Ended
    /\ ~LoopGoesOn
    /\ last' = [op |-> "display_result", err |-> "none",
                result |-> display_result(check_for_winner(board, player_1))]
    /\ UNCHANGED <<board, self, player_1, turn_counter, calls>>

NextCvC == PlayTurn \/ DisplayResult

\* Weak fairness of PlayTurn, WF_vars(PlayTurn), written out with the state
\* predicate that ENABLED <<PlayTurn>>_vars is equal to: while the loop goes
\* on the board has an empty position, make_move_results is not empty, and
\* a turn changes last.
PlayTurnFair ==
    \/ []<>(Ended \/ ~LoopGoesOn)
    \/ []<><<PlayTurn>>_vars

\* Game.play is one sequential loop: a step that can be taken is taken.
SpecCvC ==
    InitCvC /\ [][NextCvC]_vars /\ PlayTurnFair /\ WF_vars(DisplayResult)

\* Some line of the board is filled with one symbol.
WinningLine(b) == \E s \in Symbols : FilledLines(b, s) # {}

\* C20: a game of two computer players on an N x N board ends: every turn
\* fills exactly one empty cell with the symbol of the player of the turn,
\* no move is made on a board that has a winner or is full, there are at
\* most N * N turns, the result is shown in the end, and it names a winner
\* exactly when the board has a winning line and is a tie otherwise.
C20_GameTerminates ==
    /\ [][/\ turn_counter' # turn_counter
              => OneMoveApplied(board, board', current_player)
          /\ (check_winner(board) # None \/ is_full(board)) => board' = board]_vars
    /\ [](turn_counter <= board.width * board.height)
    /\ [](last.op = "display_result" =>
             /\ WinningLine(board) <=> last.result.text = "wins"
             /\ ~WinningLine(board) <=> last.result.text = "tie"
             /\ last.result.text = "wins"
                  => FilledLines(board, last.result.symbol) # {})
    /\ <>(last.op = "display_result")

\* A game of two minimax players on the 3 x 3 board that filled the board
\* in N * N turns and was shown as a tie.
C20_Witness ==
    /\ last.op = "display_result"
    /\ last.result.text = "tie"
    /\ self.strategy = 2
    /\ turn_counter = N * N
    /\ is_full(board)

====
